---- MODULE Spec2Model ----
(***************************************************************************)
(* Model of the users REST router (src/src/users_router.rs): the Iron      *)
(* chain built by UsersRouter::init (router, AuthMiddleware around it,     *)
(* CORS after it), the setup and login handlers, the five user-management  *)
(* handlers, and the collaborators they call (user store, session token    *)
(* codec, error constructors).                                             *)
(*                                                                         *)
(* Strings are TLA+ strings; Option<T> is a tuple of length 0 (None) or 1  *)
(* (Some).  A request is handled in one step, except POST /setup, whose    *)
(* two store accesses (read of the admins, create) are two steps, so that  *)
(* requests interleave between them.  A session token is a record of its   *)
(* segments: the claims travel encoded, next to the signature over them.   *)
(*                                                                         *)
(* Spec is the router under every request; SpecToken is the router with a  *)
(* client that keeps the session tokens it is issued and presents them,    *)
(* intact or with the signature changed, until after they expire.          *)
(***************************************************************************)
EXTENDS Integers, Sequences, FiniteSets, Bags, TLC

VARIABLES store, pending, last, now, held

vars == <<store, pending, last, now, held>>

---------------------------------------------------------------------------
(* Bounds of the model *)

\* Users in the store before the first request.
MaxInitUsers == 2
\* Highest value of the clock.
MaxTime == 1
\* Setup requests between their admin check and their create.
MaxInFlight == 2
\* Lifetime of an issued session token, in clock ticks.
TokenLifetime == 1
\* Sessions a client keeps.
MaxHeld == 2
\* Users in the store before the first request of that client.
MaxClientUsers == 1

---------------------------------------------------------------------------
(* Values *)

None == <<>>
Some(x) == <<x>>

API_VERSION == "v1"

\* The process-wide signing secret, and a key an attacker signs with.
Secret == "secret"
OtherKey == "other-key"

\* The claims of a session: the subject's id and name, and the expiry.
NoClaims == [id |-> 0, name |-> "", exp |-> 0]

\* The claims segment of a token: the fields in their serialized order, and
\* the claims read back from a segment.
encode_claims(claims) == <<claims.id, claims.name, claims.exp>>
decode_claims(payload) == [id |-> payload[1], name |-> payload[2], exp |-> payload[3]]

\* signature = MAC(header || claims, key), over the encoded segment.
Mac(payload, key) == [signed |-> payload, key |-> key]

\* A token: its claims segment and its signature segment (the header is
\* fixed); kind tells a string of three well-formed segments from no token
\* and from any other string.
NoToken == [kind |-> "none", payload |-> encode_claims(NoClaims),
            sig |-> Mac(encode_claims(NoClaims), "")]
Garbage == [kind |-> "garbage", payload |-> encode_claims(NoClaims),
            sig |-> Mac(encode_claims(NoClaims), "")]
Jwt(payload, sig) == [kind |-> "jwt", payload |-> payload, sig |-> sig]

NoAuth == [scheme |-> "none", username |-> "", password |-> None, token |-> NoToken]
Basic(u, p) == [scheme |-> "basic", username |-> u, password |-> p, token |-> NoToken]
Bearer(tok) == [scheme |-> "bearer", username |-> "", password |-> None, token |-> tok]

EmptyBody == [username |-> None, email |-> None, password |-> None]

User(id, name, email, password, admin) ==
    [id |-> id, name |-> name, email |-> email, password |-> password, admin |-> admin]

CorsHeaders ==
    {"Access-Control-Allow-Origin", "Access-Control-Allow-Headers",
     "Access-Control-Allow-Methods"}

---------------------------------------------------------------------------
(* Responses *)

\* Ok(Response::with((status, body))): a success response of the handler.
Response_with(status, body, token) ==
    [outcome |-> "response", ok |-> TRUE, status |-> status, body |-> body,
     errno |-> 0, message |-> None, token |-> token, headers |-> {}]

\* EndpointError::with(status, errno, message): Err(IronError) whose response
\* carries the JSON body {errno, message}.
EndpointError_with(status, errno, message) ==
    [outcome |-> "response", ok |-> FALSE, status |-> status, body |-> "error",
     errno |-> errno, message |-> message, token |-> NoToken, headers |-> {}]

\* A handler that panicked: the connection is dropped, no response leaves.
Panicked ==
    [outcome |-> "panic", ok |-> FALSE, status |-> 0, body |-> "none",
     errno |-> 0, message |-> None, token |-> NoToken, headers |-> {}]

\* errors::from_decoder_error, for a MissingFieldError(field).
from_decoder_error(field) ==
    CASE field = "username" -> EndpointError_with(400, 100, Some("Invalid user name"))
      [] field = "email" -> EndpointError_with(400, 101, Some("Invalid email"))
      [] OTHER -> EndpointError_with(400, 102,
            Some("Invalid password. Passwords must have a minimum of 8 chars"))

\* errors::from_user_builder_error: the same three errors, by failing field.
from_user_builder_error(field) == from_decoder_error(field)

\* errors::from_sqlite_error: a generic internal error, no detail.
from_sqlite_error == EndpointError_with(500, 500, None)

---------------------------------------------------------------------------
(* The user store (UsersDb) *)

\* UsersDb::read(ReadFilter::IsAdmin(true))
read_IsAdmin(st) == SelectSeq(st, LAMBDA u : u.admin)

\* UsersDb::read(ReadFilter::Credentials(username, password))
read_Credentials(st, username, password) ==
    SelectSeq(st, LAMBDA u : u.name = username /\ u.password = password)

\* UsersDb::create: the row gets the next id; the created user is returned.
create_row(st, user) == [user EXCEPT !.id = Len(st) + 1]

---------------------------------------------------------------------------
(* The session token codec (SessionToken) *)

\* issue: deterministic encode-then-sign.
issue(claims, secret) ==
    Jwt(encode_claims(claims), Mac(encode_claims(claims), secret))

\* SessionToken::from_user: the token issued for the claims of the user,
\* under the process-wide secret.
from_user(user, t) ==
    issue([id |-> user.id, name |-> user.name, exp |-> t + TokenLifetime], Secret)

Failed(why) == [status |-> why, claims |-> NoClaims]

\* A plausible slip: the expiry is not looked at.
verify_without_expiry(tok, secret, t) ==
    CASE tok.kind # "jwt" -> Failed("Malformed")
      [] tok.sig # Mac(tok.payload, secret) -> Failed("InvalidSignature")
      [] OTHER -> [status |-> "ok", claims |-> decode_claims(tok.payload)]

\* A plausible slip: the claims are decoded without checking the signature.
verify_without_signature(tok, secret, t) ==
    CASE tok.kind # "jwt" -> Failed("Malformed")
      [] t > decode_claims(tok.payload).exp -> Failed("Expired")
      [] OTHER -> [status |-> "ok", claims |-> decode_claims(tok.payload)]

\* verify, at time t: the claims of the token, or the reason of the failure,
\* Malformed before InvalidSignature before Expired.
verify(tok, secret, t) ==
    CASE tok.kind # "jwt" -> Failed("Malformed")
      [] tok.sig # Mac(tok.payload, secret) -> Failed("InvalidSignature")
      [] t > decode_claims(tok.payload).exp -> Failed("Expired")
      [] OTHER -> [status |-> "ok", claims |-> decode_claims(tok.payload)]

---------------------------------------------------------------------------
(* The user builder (UserBuilder) *)

\* An email is plausible when it has a character before and after an @.
EmailPlausible(e) ==
    \E i \in 2..(Len(e) - 1) : SubSeq(e, i, i) = "@"

\* UserBuilder::finalize: None, or the first field that failed validation.
builder_error(name, email, password) ==
    CASE name = "" -> Some("username")
      [] ~EmailPlausible(email) -> Some("email")
      [] Len(password) < 8 -> Some("password")
      [] OTHER -> None

\* json::decode::<SetupBody>: None, or the first field missing from the body,
\* in the order the struct declares them.
decode_error(body) ==
    CASE body.username = None -> Some("username")
      [] body.email = None -> Some("email")
      [] body.password = None -> Some("password")
      [] OTHER -> None

---------------------------------------------------------------------------
(* Endpoint patterns and the matcher *)

IsWildcard(seg) == Len(seg) > 0 /\ SubSeq(seg, 1, 1) = ":"

\* A plausible slip: the match flag is reset at every position, so that the
\* last position alone decides.
PathMatches_last_position(pattern, path) ==
    /\ Len(pattern) = Len(path)
    /\ Len(pattern) > 0
        => (IsWildcard(pattern[Len(pattern)]) \/ pattern[Len(pattern)] = path[Len(path)])

\* Same number of segments, and at every position a wildcard or the same
\* literal.
PathMatches(pattern, path) ==
    /\ Len(pattern) = Len(path)
    /\ \A i \in 1..Len(pattern) : IsWildcard(pattern[i]) \/ pattern[i] = path[i]

Endpoint(methods, pattern) == [methods |-> methods, pattern |-> pattern]

\* A plausible slip: Method::Delete left out of the last CORS endpoint.
CorsEndpoints_without_delete ==
    { Endpoint({"POST"}, <<API_VERSION, "login">>),
      Endpoint({"POST", "GET"}, <<API_VERSION, "users">>),
      Endpoint({"GET", "PUT"}, <<API_VERSION, "users", ":id">>) }

\* The endpoints given to CORS::new.
CorsEndpoints ==
    { Endpoint({"POST"}, <<API_VERSION, "login">>),
      Endpoint({"POST", "GET"}, <<API_VERSION, "users">>),
      Endpoint({"GET", "PUT", "DELETE"}, <<API_VERSION, "users", ":id">>) }

\* A plausible slip: the second AuthEndpoint left out.
AuthEndpoints_users_only ==
    { Endpoint({"POST", "GET"}, <<API_VERSION, "users">>) }

\* A plausible slip: POST /login listed among the AuthEndpoints.
AuthEndpoints_with_login ==
    { Endpoint({"POST"}, <<API_VERSION, "login">>),
      Endpoint({"POST", "GET"}, <<API_VERSION, "users">>),
      Endpoint({"PUT", "DELETE"}, <<API_VERSION, "users", ":id">>) }

\* A plausible slip: Method::Options listed with the methods of an
\* AuthEndpoint.
AuthEndpoints_with_options ==
    { Endpoint({"POST", "GET", "OPTIONS"}, <<API_VERSION, "users">>),
      Endpoint({"PUT", "DELETE"}, <<API_VERSION, "users", ":id">>) }

\* The endpoints given to AuthMiddleware::new.
AuthEndpoints ==
    { Endpoint({"POST", "GET"}, <<API_VERSION, "users">>),
      Endpoint({"PUT", "DELETE"}, <<API_VERSION, "users", ":id">>) }

\* CORS::is_allowed: a preflight (OPTIONS) request stands for any declared
\* method.
CorsAllowed(req) ==
    \E e \in CorsEndpoints :
        /\ req.method \in e.methods \/ req.method = "OPTIONS"
        /\ PathMatches(e.pattern, req.path)

\* The AuthMiddleware's test of its endpoint list: the method must be declared.
AuthRequired(req) ==
    \E e \in AuthEndpoints :
        /\ req.method \in e.methods
        /\ PathMatches(e.pattern, req.path)

\* The routes registered on the Router, each with the handler it calls.
Routes ==
    { [method |-> "POST", pattern |-> <<API_VERSION, "setup">>, handler |-> "setup"],
      [method |-> "POST", pattern |-> <<API_VERSION, "login">>, handler |-> "login"],
      [method |-> "POST", pattern |-> <<API_VERSION, "users">>, handler |-> "create_user"],
      [method |-> "GET", pattern |-> <<API_VERSION, "users", ":id">>, handler |-> "get_user"],
      [method |-> "GET", pattern |-> <<API_VERSION, "users">>, handler |-> "get_all_users"],
      [method |-> "PUT", pattern |-> <<API_VERSION, "users", ":id">>, handler |-> "edit_user"],
      [method |-> "DELETE", pattern |-> <<API_VERSION, "users", ":id">>, handler |-> "delete_user"] }

\* Router dispatch: the handler of the route of this method that recognizes
\* the path; "options" for an OPTIONS request (answered by the router itself);
\* "noroute" otherwise.
Route(req) ==
    LET hit == {r \in Routes : r.method = req.method /\ PathMatches(r.pattern, req.path)}
    IN  IF hit # {} THEN (CHOOSE r \in hit : TRUE).handler
        ELSE IF req.method = "OPTIONS" THEN "options"
        ELSE "noroute"

---------------------------------------------------------------------------
(* The handlers.  A handler's result is its response, the events of its     *)
(* run, in order ("handler.<name>" when it is entered, then one event per   *)
(* call to the store or the token codec), and the store as it leaves it.    *)

\* What issuing the token and encoding the body can do.
EncOutcomes == {"ok", "token.err", "json.err"}

\* A plausible slip: status::Ok in place of status::Created.
with_user_status_ok(user, t, enc) ==
    CASE enc = "token.err" ->
            [resp |-> EndpointError_with(500, 501, None), ev |-> <<"token.err">>]
      [] enc = "json.err" ->
            [resp |-> EndpointError_with(500, 501, None), ev |-> <<"token.ok", "json.err">>]
      [] OTHER ->
            [resp |-> Response_with(200, "login", from_user(user, t)),
             ev |-> <<"token.ok", "json.ok">>]

\* LoginResponse::with_user
with_user(user, t, enc) ==
    CASE enc = "token.err" ->
            [resp |-> EndpointError_with(500, 501, None), ev |-> <<"token.err">>]
      [] enc = "json.err" ->
            [resp |-> EndpointError_with(500, 501, None), ev |-> <<"token.ok", "json.err">>]
      [] OTHER ->
            [resp |-> Response_with(201, "login", from_user(user, t)),
             ev |-> <<"token.ok", "json.ok">>]

\* A plausible slip: an empty password is taken as provided.
credentials_from_header_empty_password(auth) ==
    IF auth.username = "" \/ auth.password = None
    THEN None
    ELSE Some([username |-> auth.username, password |-> auth.password[1]])

\* credentials_from_header, local to login: Some pair of credentials if both
\* username and password are provided, None otherwise.
credentials_from_header(auth) ==
    LET something_is_missed ==
            \/ auth.username = ""
            \/ auth.password = None
            \/ auth.password[1] = ""
    IN  IF something_is_missed
        THEN None
        ELSE Some([username |-> auth.username, password |-> auth.password[1]])

error103 ==
    EndpointError_with(400, 103, Some("Missing or malformed authentication header"))

\* A plausible slip: only the empty result is refused.
not_exactly_one_empty_only(users) == Len(users) = 0

\* login: users.len() != 1
not_exactly_one(users) == Len(users) # 1

\* A plausible slip: login doubles as sign-up, and creates the user its
\* credentials do not match.
login_creating_the_unknown(req, st, t, readOk, enc) ==
    LET enter == <<"handler.login">> IN
    IF req.auth.scheme # "basic"
    THEN [resp |-> error103, ev |-> enter, store |-> st]
    ELSE LET creds == credentials_from_header(req.auth) IN
         IF creds = None
         THEN [resp |-> error103, ev |-> enter, store |-> st]
         ELSE IF ~readOk
         THEN [resp |-> EndpointError_with(500, 501, None),
               ev |-> enter \o <<"db.read.err">>, store |-> st]
         ELSE LET users == read_Credentials(st, creds[1].username, creds[1].password) IN
              IF users = <<>>
              THEN [resp |-> EndpointError_with(401, 401, None),
                    ev |-> enter \o <<"db.read.ok">>,
                    store |-> Append(st, User(Len(st) + 1, creds[1].username, "",
                                              creds[1].password, FALSE))]
              ELSE IF not_exactly_one(users)
              THEN [resp |-> EndpointError_with(401, 401, None),
                    ev |-> enter \o <<"db.read.ok">>, store |-> st]
              ELSE LET w == with_user(users[1], t, enc) IN
                   [resp |-> w.resp, ev |-> enter \o <<"db.read.ok">> \o w.ev,
                    store |-> st]

\* UsersRouter::login
login(req, st, t, readOk, enc) ==
    LET enter == <<"handler.login">> IN
    IF req.auth.scheme # "basic"
    THEN [resp |-> error103, ev |-> enter, store |-> st]
    ELSE LET creds == credentials_from_header(req.auth) IN
         IF creds = None
         THEN [resp |-> error103, ev |-> enter, store |-> st]
         ELSE IF ~readOk
         THEN [resp |-> EndpointError_with(500, 501, None),
               ev |-> enter \o <<"db.read.err">>, store |-> st]
         ELSE LET users == read_Credentials(st, creds[1].username, creds[1].password) IN
              IF not_exactly_one(users)
              THEN [resp |-> EndpointError_with(401, 401, None),
                    ev |-> enter \o <<"db.read.ok">>, store |-> st]
              ELSE LET w == with_user(users[1], t, enc) IN
                   [resp |-> w.resp, ev |-> enter \o <<"db.read.ok">> \o w.ev,
                    store |-> st]

NoUser == User(0, "", "", "", FALSE)

\* A plausible slip: the check is inverted.
admin_exists_inverted(admins) == admins = <<>>

\* setup: !admins.is_empty()
admin_exists(admins) == admins # <<>>

\* A plausible slip: the username is given as the email.
build_admin_email_from_name(name, email, password) ==
    User(0, name, name, password, TRUE)

\* A plausible slip: .admin(true) left out of the builder chain.
build_admin_not_flagged(name, email, password) ==
    User(0, name, email, password, FALSE)

\* setup: the user the builder finalizes, flagged admin.
build_admin(name, email, password) == User(0, name, email, password, TRUE)

\* UsersRouter::setup, up to the user it is about to create: the admin check,
\* the decoding of the body and the building of the user.  phase is "create"
\* when the handler goes on to db.create, "done" when it has answered.
setup_check(req, st, readOk) ==
    LET enter == <<"handler.setup">> IN
    IF ~readOk
    THEN [phase |-> "done", resp |-> Panicked, admin |-> NoUser,
          ev |-> enter \o <<"db.read.err">>]
    ELSE LET seen == enter \o <<"db.read.ok">> IN
         IF admin_exists(read_IsAdmin(st))
         THEN [phase |-> "done", admin |-> NoUser, ev |-> seen,
               resp |-> EndpointError_with(410, 410,
                            Some("There is already an admin account"))]
         ELSE IF decode_error(req.body) # None
         THEN [phase |-> "done", admin |-> NoUser, ev |-> seen,
               resp |-> from_decoder_error(decode_error(req.body)[1])]
         ELSE LET name == req.body.username[1]
                  email == req.body.email[1]
                  password == req.body.password[1]
                  failed == builder_error(name, email, password)
              IN  IF failed # None
                  THEN [phase |-> "done", admin |-> NoUser, ev |-> seen,
                        resp |-> from_user_builder_error(failed[1])]
                  ELSE [phase |-> "create", ev |-> seen, resp |-> Panicked,
                        admin |-> build_admin(name, email, password)]

\* A plausible slip: the token is issued for the user as built, not for the
\* user db.create returns.
setup_create_token_of_unsaved(admin, st, t, createOk, enc) ==
    IF ~createOk
    THEN [resp |-> from_sqlite_error, ev |-> <<"db.create.err">>, store |-> st]
    ELSE LET created == create_row(st, admin)
             w == with_user(admin, t, enc)
         IN  [resp |-> w.resp, ev |-> <<"db.create.ok">> \o w.ev,
              store |-> Append(st, created)]

\* UsersRouter::setup, from db.create on.
setup_create(admin, st, t, createOk, enc) ==
    IF ~createOk
    THEN [resp |-> from_sqlite_error, ev |-> <<"db.create.err">>, store |-> st]
    ELSE LET created == create_row(st, admin)
             w == with_user(created, t, enc)
         IN  [resp |-> w.resp, ev |-> <<"db.create.ok">> \o w.ev,
              store |-> Append(st, created)]

\* A plausible slip: the handler removes the user the path names, and still
\* answers 404.
delete_user_removing(req, st) ==
    [resp |-> EndpointError_with(404, 404, None), ev |-> <<"handler.delete_user">>,
     store |-> SelectSeq(st, LAMBDA u : ~(req.path[3] = "1" /\ u.id = 1))]

\* A plausible slip: the handler is taken as implemented, reads the users
\* and answers 200 with their list.
get_all_users_listing(req, st) ==
    [resp |-> Response_with(200, "users", NoToken),
     ev |-> <<"handler.get_all_users", "db.read.ok">>, store |-> st]

\* UsersRouter::create_user, get_user, get_all_users, edit_user, delete_user
create_user(req, st) ==
    [resp |-> EndpointError_with(404, 404, None), ev |-> <<"handler.create_user">>,
     store |-> st]
get_user(req, st) ==
    [resp |-> EndpointError_with(404, 404, None), ev |-> <<"handler.get_user">>,
     store |-> st]
get_all_users(req, st) ==
    [resp |-> EndpointError_with(404, 404, None), ev |-> <<"handler.get_all_users">>,
     store |-> st]
edit_user(req, st) ==
    [resp |-> EndpointError_with(404, 404, None), ev |-> <<"handler.edit_user">>,
     store |-> st]
delete_user(req, st) ==
    [resp |-> EndpointError_with(404, 404, None), ev |-> <<"handler.delete_user">>,
     store |-> st]

\* The router's own answers: 200 with an Allow header to OPTIONS, 404 when no
\* route recognizes the request.
options_response(st) ==
    [resp |-> [Response_with(200, "none", NoToken) EXCEPT !.headers = {"Allow"}],
     ev |-> <<"router.options">>, store |-> st]
no_route(st) ==
    [resp |-> [EndpointError_with(404, 0, None) EXCEPT !.body = "none"],
     ev |-> <<"router.noroute">>, store |-> st]

\* Router::handle for every route but POST /setup.
Router_handle(req, st, t, readOk, enc) ==
    LET h == Route(req) IN
    CASE h = "login" -> login(req, st, t, readOk, enc)
      [] h = "create_user" -> create_user(req, st)
      [] h = "get_user" -> get_user(req, st)
      [] h = "get_all_users" -> get_all_users(req, st)
      [] h = "edit_user" -> edit_user(req, st)
      [] h = "delete_user" -> delete_user(req, st)
      [] h = "options" -> options_response(st)
      [] OTHER -> no_route(st)

---------------------------------------------------------------------------
(* The chain built by UsersRouter::init *)

\* AuthMiddleware, linked around the router: a request to one of its
\* endpoints must carry a bearer session token that verifies, or it is
\* answered 401 and the wrapped handler is not called; h is the result of the
\* wrapped handler, who the claims the request is admitted with.
AuthMiddleware_around(req, t, h) ==
    IF ~AuthRequired(req)
    THEN [resp |-> h.resp, ev |-> <<"auth.pass">> \o h.ev, handled |-> TRUE,
          who |-> NoClaims]
    ELSE IF req.auth.scheme = "bearer" /\ verify(req.auth.token, Secret, t).status = "ok"
    THEN [resp |-> h.resp, ev |-> <<"auth.admit">> \o h.ev, handled |-> TRUE,
          who |-> verify(req.auth.token, Secret, t).claims]
    ELSE [resp |-> EndpointError_with(401, 401, None), ev |-> <<"auth.reject">>,
          handled |-> FALSE, who |-> NoClaims]

\* CORS, linked after: its after and its catch both add the three headers to
\* the response of a request to one of its endpoints.
CORS_after(req, r) ==
    IF r.resp.outcome = "panic"
    THEN r
    ELSE [r EXCEPT !.resp.headers = @ \cup (IF CorsAllowed(req) THEN CorsHeaders ELSE {}),
                   !.ev = Append(@, "cors")]

\* A plausible slip: the CORS middleware ends up inside the auth middleware,
\* so that a response of the auth middleware is not decorated.
init_cors_inside(req, t, h) ==
    AuthMiddleware_around(req, t, [resp |-> CORS_after(req, h).resp,
                                   ev |-> CORS_after(req, h).ev])

\* The chain: Chain::new(router), link_after(cors), link_around(auth).
init(req, t, h) == CORS_after(req, AuthMiddleware_around(req, t, h))

---------------------------------------------------------------------------
(* Inputs *)

Methods == {"POST", "GET", "PUT", "DELETE", "OPTIONS"}

SetupPath == <<API_VERSION, "setup">>
LoginPath == <<API_VERSION, "login">>
UsersPath == <<API_VERSION, "users">>
UserPath == <<API_VERSION, "users", "1">>
OtherPaths == {<<API_VERSION, "login", "x">>, <<API_VERSION, "users", "a", "b">>}

ClaimInputs == {[id |-> 1, name |-> "u", exp |-> e] : e \in {0, MaxTime}}
TokenInputs ==
    {Garbage} \cup {issue(c, k) : c \in ClaimInputs, k \in {Secret, OtherKey}}
GoodToken == issue([id |-> 1, name |-> "u", exp |-> MaxTime], Secret)

BasicInputs ==
    {Basic(u, p) : u \in {"", "u"}, p \in {None, Some(""), Some("12345678")}}
BearerInputs == {Bearer(tok) : tok \in TokenInputs}
AuthInputs == {NoAuth} \cup BasicInputs \cup BearerInputs
FewAuthInputs == {NoAuth, Bearer(GoodToken)}

BodyInputs ==
    [username : {None, Some(""), Some("u")},
     email : {None, Some("bad"), Some("u@d")},
     password : {None, Some("1234567"), Some("12345678")}]

Request(method, path, auth, body) ==
    [method |-> method, path |-> path, auth |-> auth, body |-> body]

\* The requests that arrive: every method on every path; every kind of
\* Authorization header where a gate or a handler reads it; every body on
\* POST /setup, the only route that reads it, and every token on it too.
RequestInputs ==
    {Request(m, p, a, EmptyBody) :
        m \in Methods, p \in {UsersPath, UserPath},
        a \in {NoAuth, Basic("u", Some("12345678"))} \cup BearerInputs}
    \cup {Request("POST", LoginPath, a, EmptyBody) : a \in AuthInputs}
    \cup {Request(m, p, a, EmptyBody) :
            m \in Methods \ {"POST"}, p \in {LoginPath, SetupPath}, a \in FewAuthInputs}
    \cup {Request(m, p, a, EmptyBody) :
            m \in Methods, p \in OtherPaths, a \in FewAuthInputs}
    \cup {Request("POST", SetupPath, NoAuth, b) : b \in BodyInputs}
    \cup {Request("POST", SetupPath, Bearer(Garbage),
                  [username |-> Some("u"), email |-> Some("u@d"),
                   password |-> Some("12345678")])}
    \cup {Request("POST", SetupPath, a, EmptyBody) : a \in BearerInputs}

\* The users a store can hold before the first request.
InitUsers ==
    {User(0, "u", "u@example.com", "12345678", FALSE),
     User(0, "v", "v@example.com", "12345678", FALSE),
     User(0, "u", "admin@example.com", "12345678", TRUE)}

WithIds(rows) == [i \in 1..Len(rows) |-> [rows[i] EXCEPT !.id = i]]

InitStores ==
    {WithIds(rows) : rows \in UNION {[1..n -> InitUsers] : n \in 0..MaxInitUsers}}

---------------------------------------------------------------------------
(* The state machine *)

\* A request and its response: seen is the store at the handler's first
\* access, pre and post the store before and after its last step.
\* who is the claims the auth middleware admitted the request with.
Exchange(req, r, seen, pre, post) ==
    [req |-> req, resp |-> r.resp, ev |-> r.ev, who |-> r.who,
     seen |-> seen, pre |-> pre, post |-> post]

NoExchange ==
    [req |-> Request("NONE", <<>>, NoAuth, EmptyBody),
     resp |-> [Panicked EXCEPT !.outcome = "none"],
     ev |-> <<>>, who |-> NoClaims, seen |-> <<>>, pre |-> <<>>, post |-> <<>>]

Init ==
    /\ store \in InitStores
    /\ pending = EmptyBag
    /\ last = NoExchange
    /\ now = 0
    /\ held = {}

\* What the store's read and the token codec can do during a request: only
\* login calls them.
HandleOutcomes(req) ==
    IF Route(req) = "login" THEN BOOLEAN \X EncOutcomes ELSE {<<TRUE, "ok">>}

\* A request to any route but POST /setup, from its arrival to its response.
Handle(req) ==
    /\ last = NoExchange
    /\ Route(req) # "setup"
    /\ \E f \in HandleOutcomes(req) :
          LET h == Router_handle(req, store, now, f[1], f[2])
              r == init(req, now, h)
              after == IF r.handled THEN h.store ELSE store
          IN  /\ store' = after
              /\ last' = Exchange(req, r, store, store, after)
    /\ UNCHANGED <<pending, now, held>>

\* POST /setup up to its answer (410, 400, or a panic on a failed read), or up
\* to the point where it is about to create the admin.
SetupBegin(req) ==
    /\ last = NoExchange
    /\ Route(req) = "setup"
    /\ \E readOk \in BOOLEAN :
          LET c == setup_check(req, store, readOk)
              r == init(req, now, [resp |-> c.resp, ev |-> c.ev])
          IN  IF r.handled /\ c.phase = "create"
              THEN /\ BagCardinality(pending) < MaxInFlight
                   /\ pending' = pending (+) SetToBag({[req |-> req, t0 |-> now, seen |-> store,
                                                        admin |-> c.admin, ev |-> c.ev]})
                   /\ UNCHANGED last
              ELSE /\ last' = Exchange(req, r, store, store, store)
                   /\ UNCHANGED pending
    /\ UNCHANGED <<store, now, held>>

\* POST /setup from db.create to its response.
SetupCreate(p) ==
    /\ last = NoExchange
    /\ BagIn(p, pending)
    /\ \E createOk \in BOOLEAN, enc \in EncOutcomes :
          LET c == setup_create(p.admin, store, now, createOk, enc)
              r == init(p.req, p.t0, [resp |-> c.resp, ev |-> p.ev \o c.ev])
          IN  /\ store' = c.store
              /\ last' = Exchange(p.req, r, p.seen, store, c.store)
    /\ pending' = pending (-) SetToBag({p})
    /\ UNCHANGED <<now, held>>

\* The response leaves (or the panicked connection is dropped): the exchange
\* is over.
Deliver ==
    /\ last # NoExchange
    /\ last' = NoExchange
    /\ UNCHANGED <<store, pending, now, held>>

\* The clock advances.
Tick ==
    /\ last = NoExchange
    /\ now < MaxTime
    /\ now' = now + 1
    /\ UNCHANGED <<store, pending, last, held>>

Next ==
    \/ \E req \in RequestInputs : Handle(req)
    \/ \E req \in RequestInputs : SetupBegin(req)
    \/ \E p \in BagToSet(pending) : SetupCreate(p)
    \/ Deliver
    \/ Tick

Spec == Init /\ [][Next]_vars

---------------------------------------------------------------------------
(* The router and a client that keeps its sessions *)

\* The user a 201 response carries a token for: the one user the credentials
\* matched (login), the row db.create returned (setup).
IssuedFor(x) ==
    IF x.req.path = LoginPath
    THEN read_Credentials(x.seen, x.req.auth.username, x.req.auth.password[1])[1]
    ELSE x.post[Len(x.post)]

\* A session as its client knows it: the token, the route that issued it, the
\* user it was issued for, and its expiry, one lifetime after the response.
Session(x, t) ==
    [token |-> x.resp.token, by |-> x.req.path[2],
     id |-> IssuedFor(x).id, name |-> IssuedFor(x).name, exp |-> t + TokenLifetime]

\* The tokens got from tok by changing its signature segment: to a signature
\* under another key, or to the signature of another held token.
Tampered(tok) ==
    {[tok EXCEPT !.sig = sig] :
        sig \in ({Mac(tok.payload, OtherKey)} \cup {h.token.sig : h \in held}) \ {tok.sig}}

\* What the client sends: a setup, a login, and requests to gated endpoints
\* with a token it holds, intact or tampered with.
ClientRequests ==
    {Request("POST", SetupPath, NoAuth,
             [username |-> Some("u"), email |-> Some("u@d"), password |-> Some("12345678")]),
     Request("POST", LoginPath, Basic("u", Some("12345678")), EmptyBody)}
    \cup {Request(e[1], e[2], Bearer(tok), EmptyBody) :
            e \in {<<"GET", UsersPath>>, <<"DELETE", UserPath>>},
            tok \in UNION {{h.token} \cup Tampered(h.token) : h \in held}}

\* The stores the client meets first: few users, an admin among them or not.
ClientStores ==
    {WithIds(rows) : rows \in UNION {[1..n -> InitUsers] : n \in 0..MaxClientUsers}}

InitToken ==
    /\ store \in ClientStores
    /\ pending = EmptyBag
    /\ last = NoExchange
    /\ now = 0
    /\ held = {}

\* The response leaves, and the client keeps the session of a 201 while it
\* has room for it.
DeliverKeep ==
    /\ last # NoExchange
    /\ last' = NoExchange
    /\ held' = IF last.resp.status = 201 /\ Cardinality(held) < MaxHeld
               THEN held \cup {Session(last, now)}
               ELSE held
    /\ UNCHANGED <<store, pending, now>>

\* The clock advances, until the tokens issued first have expired.
TickLate ==
    /\ last = NoExchange
    /\ now < TokenLifetime + 1
    /\ now' = now + 1
    /\ UNCHANGED <<store, pending, last, held>>

NextToken ==
    \/ \E req \in ClientRequests : Handle(req)
    \/ \E req \in ClientRequests : SetupBegin(req)
    \/ \E p \in BagToSet(pending) : SetupCreate(p)
    \/ DeliverKeep
    \/ TickLate

SpecToken == InitToken /\ [][NextToken]_vars

---------------------------------------------------------------------------
(* What the properties read off the last exchange *)

\* A response left (the handler did not panic).
Answered == last.resp.outcome = "response"

HasEvent(e) == \E i \in 1..Len(last.ev) : last.ev[i] = e

IsHandlerEvent(e) == Len(e) > 8 /\ SubSeq(e, 1, 8) = "handler."

\* Some route handler was entered for the request.
HandlerRan == \E i \in 1..Len(last.ev) : IsHandlerEvent(last.ev[i])

IsPost(path) == last.req.method = "POST" /\ last.req.path = path

Admins(st) == {i \in 1..Len(st) : st[i].admin}

HasCorsHeaders == CorsHeaders \subseteq last.resp.headers
HasNoCorsHeader == CorsHeaders \cap last.resp.headers = {}

\* The request carries a bearer session token that is well formed, signed
\* with the secret and not expired.
CarriesValidToken ==
    /\ last.req.auth.scheme = "bearer"
    /\ last.req.auth.token.kind = "jwt"
    /\ last.req.auth.token.sig = Mac(last.req.auth.token.payload, Secret)
    /\ now <= decode_claims(last.req.auth.token.payload).exp

\* The body of the request, field by field, as the interface describes it.
UsernameFails == last.req.body.username = None \/ last.req.body.username[1] = ""
EmailFails ==
    \/ last.req.body.email = None
    \/ ~\E i \in 2..(Len(last.req.body.email[1]) - 1) :
            SubSeq(last.req.body.email[1], i, i) = "@"
PasswordFails == last.req.body.password = None \/ Len(last.req.body.password[1]) < 8
ValidBody == ~UsernameFails /\ ~EmailFails /\ ~PasswordFails

\* Neither the store nor the token codec failed during the request.
NoFailure ==
    ~(HasEvent("db.read.err") \/ HasEvent("db.create.err")
        \/ HasEvent("token.err") \/ HasEvent("json.err"))

\* The Basic credentials of a login request, when both are provided.
CredentialsGiven ==
    /\ last.req.auth.scheme = "basic"
    /\ last.req.auth.username # ""
    /\ last.req.auth.password # None
    /\ last.req.auth.password[1] # ""

\* The stored users the credentials of the request match.
Matching ==
    {i \in 1..Len(last.seen) :
        /\ last.seen[i].name = last.req.auth.username
        /\ last.seen[i].password = last.req.auth.password[1]}

---------------------------------------------------------------------------
(* C1 *)

\* C1: every response to a POST /setup that found an admin-flagged user in
\* the store is 410 with errno 410 and the message "There is already an admin
\* account", whatever the body, and the request leaves the store as it was.
C1_SetupGoneOnceAdminExists ==
    (IsPost(SetupPath) /\ Answered /\ Admins(last.seen) # {})
        => /\ last.resp.status = 410
           /\ last.resp.errno = 410
           /\ last.resp.message = Some("There is already an admin account")
           /\ last.pre = last.seen
           /\ last.post = last.seen

\* A setup with a valid body answered 410 because an admin exists.
C1_Witness ==
    /\ IsPost(SetupPath) /\ ValidBody /\ Admins(last.seen) # {}
    /\ last.resp.status = 410
    /\ Admins(store) = Admins(last.seen)

(* C2 *)

\* C2: a POST /setup with a valid body, run alone against a store with no
\* admin, the store and the token codec answering without error, returns 201
\* with a session token whose claims carry the submitted username, and the
\* store then holds exactly one admin-flagged user, with the submitted email.
C2_SetupCreatesTheAdmin ==
    (/\ IsPost(SetupPath) /\ Answered /\ ValidBody
     /\ Admins(last.seen) = {}
     /\ last.pre = last.seen /\ pending = EmptyBag
     /\ NoFailure)
        => /\ last.resp.status = 201
           /\ last.resp.body = "login"
           /\ last.resp.token.kind = "jwt"
           /\ decode_claims(last.resp.token.payload).name = last.req.body.username[1]
           /\ Cardinality(Admins(last.post)) = 1
           /\ \A i \in Admins(last.post) :
                last.post[i].email = last.req.body.email[1]

\* A setup run alone that created the admin next to a stored user.
C2_Witness ==
    /\ IsPost(SetupPath) /\ ValidBody /\ Admins(last.seen) = {}
    /\ last.pre = last.seen /\ pending = EmptyBag
    /\ last.resp.status = 201
    /\ Len(last.post) = 2 /\ last.post[2].admin /\ store = last.post

(* C3 *)

\* The auth-gated endpoints, as the interface lists them.
GatedRequest ==
    \/ last.req.method \in {"POST", "GET"} /\ last.req.path = <<"v1", "users">>
    \/ /\ last.req.method \in {"PUT", "DELETE"}
       /\ Len(last.req.path) = 3
       /\ SubSeq(last.req.path, 1, 2) = <<"v1", "users">>

\* C3: a request to an auth-gated endpoint (POST or GET /v1/users, PUT or
\* DELETE /v1/users/:id) that carries no valid bearer session token (absent,
\* malformed, wrongly signed or expired) is answered 401, and no route handler
\* is entered for it.
C3_GatedWithoutTokenRejected ==
    (GatedRequest /\ ~CarriesValidToken /\ last # NoExchange)
        => /\ Answered
           /\ last.resp.status = 401
           /\ ~HandlerRan

\* A DELETE /v1/users/1 with an expired, rightly signed token, answered 401.
C3_Witness ==
    /\ last.req.method = "DELETE" /\ last.req.path = UserPath
    /\ last.req.auth.scheme = "bearer"
    /\ last.req.auth.token.kind = "jwt"
    /\ last.req.auth.token.sig = Mac(last.req.auth.token.payload, Secret)
    /\ now > decode_claims(last.req.auth.token.payload).exp
    /\ last.resp.status = 401 /\ ~HandlerRan

(* C4 *)

UserManagementHandlers ==
    {"handler.create_user", "handler.get_user", "handler.get_all_users",
     "handler.edit_user", "handler.delete_user"}

\* C4: every user-management route requires auth: none of the handlers of
\* POST /users, GET /users, GET /users/:id, PUT /users/:id and
\* DELETE /users/:id is entered for a request without a valid session token.
C4_UserRoutesAllGated ==
    (\E e \in UserManagementHandlers : HasEvent(e)) => CarriesValidToken

(* C5 *)

\* The CORS endpoints, as the interface lists them; a preflight request
\* stands for any declared method.
CorsRequest ==
    \/ last.req.method \in {"POST", "OPTIONS"} /\ last.req.path = <<"v1", "login">>
    \/ last.req.method \in {"POST", "GET", "OPTIONS"} /\ last.req.path = <<"v1", "users">>
    \/ /\ last.req.method \in {"GET", "PUT", "DELETE", "OPTIONS"}
       /\ Len(last.req.path) = 3
       /\ SubSeq(last.req.path, 1, 2) = <<"v1", "users">>

\* C5: every response to a request matching a CORS endpoint carries the
\* three Access-Control-Allow headers, on success and on error; every response
\* to any other request carries none of them.
C5_CorsHeadersExactlyOnCorsEndpoints ==
    Answered => IF CorsRequest THEN HasCorsHeaders ELSE HasNoCorsHeader

\* An error response of POST /v1/login that carries the three headers.
C5_Witness ==
    /\ IsPost(LoginPath) /\ Answered /\ ~last.resp.ok
    /\ last.resp.status = 400 /\ HasCorsHeaders

(* C6 *)

\* C6: a POST /login without a Basic Authorization header, or with an empty
\* username, or with a missing or empty password, is answered 400 with errno
\* 103, and the store is not read for it.
C6_LoginWithoutCredentials ==
    (IsPost(LoginPath) /\ ~CredentialsGiven)
        => /\ Answered
           /\ last.resp.status = 400
           /\ last.resp.errno = 103
           /\ ~HasEvent("db.read.ok") /\ ~HasEvent("db.read.err")

\* A login with a username and an empty password, answered 400.
C6_Witness ==
    /\ IsPost(LoginPath)
    /\ last.req.auth.scheme = "basic" /\ last.req.auth.username = "u"
    /\ last.req.auth.password = Some("")
    /\ last.resp.status = 400 /\ last.resp.errno = 103

(* C7 *)

\* C7: a POST /login with credentials for which the store returns a number
\* of matching users other than one (none, or several) is answered 401, never
\* with a server error, and no session token is issued.
C7_LoginNotExactlyOneMatch ==
    (/\ IsPost(LoginPath) /\ CredentialsGiven /\ HasEvent("db.read.ok")
     /\ Cardinality(Matching) # 1)
        => /\ Answered
           /\ last.resp.status = 401
           /\ last.resp.status < 500
           /\ last.resp.token = NoToken
           /\ ~HasEvent("token.ok")

\* A login whose credentials match two stored users, answered 401.
C7_Witness ==
    /\ IsPost(LoginPath) /\ CredentialsGiven /\ HasEvent("db.read.ok")
    /\ Cardinality(Matching) = 2
    /\ last.resp.status = 401

(* C8 *)

\* C8: a POST /login with credentials that match exactly one stored user,
\* the store and the token codec answering without error, is answered 201 with
\* a session token whose claims carry the id and the name of that user.
C8_LoginIssuesTokenOfTheMatch ==
    (/\ IsPost(LoginPath) /\ CredentialsGiven /\ Answered /\ NoFailure
     /\ Cardinality(Matching) = 1)
        => /\ last.resp.status = 201
           /\ last.resp.token.kind = "jwt"
           /\ \A i \in Matching :
                /\ decode_claims(last.resp.token.payload).id = last.seen[i].id
                /\ decode_claims(last.resp.token.payload).name = last.seen[i].name

\* A login that matched the second of two stored users and got its token.
C8_Witness ==
    /\ IsPost(LoginPath) /\ CredentialsGiven
    /\ Len(last.seen) = 2 /\ Matching = {2}
    /\ last.resp.status = 201
    /\ decode_claims(last.resp.token.payload).id = 2

(* C9 *)

\* The errno of the first field of the body that fails, in the order
\* username, email, password.
FirstFailingErrno ==
    CASE UsernameFails -> 100
      [] EmailFails -> 101
      [] OTHER -> 102

\* C9: when no admin exists, a POST /setup whose body fails validation is
\* answered 400 with the errno of the first failing field in the order
\* username (100), email (101), password (102), and no user is created.
C9_SetupFirstFailingField ==
    (IsPost(SetupPath) /\ Answered /\ Admins(last.seen) = {} /\ ~ValidBody)
        => /\ last.resp.status = 400
           /\ last.resp.errno = FirstFailingErrno
           /\ last.post = last.pre
           /\ ~HasEvent("db.create.ok")

(* C10 *)

\* C10: in every exchange the decision of the auth middleware is the first
\* event, before any route handler, and the CORS decoration is the last one;
\* a request the auth middleware rejects enters no handler and, on a CORS
\* endpoint, its 401 still carries the three CORS headers.
C10_AuthFirstCorsLast ==
    Answered
        => /\ last.ev[1] \in {"auth.pass", "auth.admit", "auth.reject"}
           /\ \A i \in 2..Len(last.ev) : last.ev[i] \notin {"auth.pass", "auth.admit", "auth.reject"}
           /\ last.ev[Len(last.ev)] = "cors"
           /\ \A i \in 1..(Len(last.ev) - 1) : last.ev[i] # "cors"
           /\ HasEvent("auth.reject") => (~HandlerRan /\ last.resp.status = 401)
           /\ (HasEvent("auth.reject") /\ CorsRequest) => HasCorsHeaders

\* A POST /v1/users without a token: rejected, and decorated.
C10_Witness ==
    /\ IsPost(UsersPath) /\ last.req.auth = NoAuth
    /\ last.ev = <<"auth.reject", "cors">>
    /\ last.resp.status = 401 /\ HasCorsHeaders

(* C11 *)

\* C11: a request that matches no endpoint of the auth middleware passes it
\* unconditionally; in particular every POST /v1/setup and every POST
\* /v1/login enters its handler, with or without a session token and
\* whatever the token.
C11_UngatedAdmittedUnconditionally ==
    /\ (last # NoExchange /\ ~GatedRequest)
            => (last.ev[1] = "auth.pass" /\ ~HasEvent("auth.reject"))
    /\ IsPost(SetupPath) => HasEvent("handler.setup")
    /\ IsPost(LoginPath) => HasEvent("handler.login")

\* A login carrying a token that is not even well formed entered its
\* handler (and was answered 400, for want of Basic credentials).
C11_Witness ==
    /\ IsPost(LoginPath)
    /\ last.req.auth.scheme = "bearer" /\ last.req.auth.token.kind = "garbage"
    /\ last.ev[1] = "auth.pass" /\ HasEvent("handler.login")
    /\ last.resp.status = 400

(* C12 *)

\* The claims a held session was issued for.
ClaimsOf(h) == [id |-> h.id, name |-> h.name, exp |-> h.exp]

\* Claims of every shape: an id that is zero, small or large, a name that is
\* empty or not, an expiry from the first instant to the last.
WellFormedClaims ==
    [id : {0, 1, MaxInitUsers + MaxInFlight}, name : {"", "u"},
     exp : 0..(TokenLifetime + 1)]

\* The request presents the token of the held session h, as issued.
Presents(h) == last.req.auth.scheme = "bearer" /\ last.req.auth.token = h.token

PresentsTampered(h) ==
    /\ last.req.auth.scheme = "bearer"
    /\ last.req.auth.token.kind = "jwt"
    /\ last.req.auth.token.payload = h.token.payload
    /\ last.req.auth.token.sig # h.token.sig

C15_PreflightMatchesForCorsOnly ==
    (last.req.method = "OPTIONS")
        => /\ Answered
           /\ last.ev[1] = "auth.pass"
           /\ last.resp.status # 401
           /\ last.req.path \in {LoginPath, UsersPath, UserPath} => HasCorsHeaders
           /\ last.req.path \notin {LoginPath, UsersPath, UserPath} => HasNoCorsHeader

\* An OPTIONS /v1/users without a token: passed by the auth middleware,
\* answered by the router, decorated.
C15_Witness ==
    /\ last.req.method = "OPTIONS" /\ last.req.path = UsersPath
    /\ last.req.auth = NoAuth
    /\ last.ev = <<"auth.pass", "router.options", "cors">>
    /\ last.resp.status = 200 /\ HasCorsHeaders

(* C16 *)

\* C16: the admin check of setup and its create are not atomic: a setup
\* with a valid body that read an empty admin list creates on the strength
\* of that read; whatever the store holds by the time it calls create, an
\* admin written by a concurrent setup or not, and the store and the token
\* codec not failing, it appends the admin built from its body and is
\* answered 201.  (C16_Witness is the interleaving: two setups, both answered
\* 201, two admins in the store.)
C16_SetupCreatesOnStaleCheck ==
    (/\ IsPost(SetupPath) /\ Answered /\ ValidBody
     /\ Admins(last.seen) = {} /\ NoFailure)
        => /\ last.resp.status = 201
           /\ HasEvent("db.create.ok")
           /\ last.post = Append(last.pre,
                    [id |-> Len(last.pre) + 1, name |-> last.req.body.username[1],
                     email |-> last.req.body.email[1],
                     password |-> last.req.body.password[1], admin |-> TRUE])

\* Two sessions issued by setup, for two different users, both flagged
\* admin, in a store that started with no admin and holds two now.
C16_Witness ==
    \E h, g \in held :
        /\ h.by = "setup" /\ g.by = "setup" /\ h.id # g.id
        /\ Admins(store) = {h.id, g.id}
        /\ pending = EmptyBag

(* C17 *)

\* C17: once the store holds an admin-flagged user, it holds one after every
\* step of the router, whatever the request: a setup, a login, a request to
\* one of the five user-management routes, admitted or not.
C17_AdminOnceAdminEver ==
    [][Admins(store) # {} => Admins(store') # {}]_vars

\* A DELETE /v1/users/1 with a valid token, the first user being the only
\* admin: admitted, its handler entered, and the admin still there.
C17_Witness ==
    /\ last.req.method = "DELETE" /\ last.req.path = UserPath
    /\ HasEvent("auth.admit") /\ HasEvent("handler.delete_user")
    /\ Admins(last.pre) = {1}
    /\ Admins(store) = {1}

(* C18 *)

\* C18: every failure of the store (the read of the admins and the create in
\* setup, the read of the credentials in login) and of the encoding of the
\* token or of the body (in both) met while handling POST /setup or POST
\* /login surfaces as a response with status 500 and no message.
C18_FailuresSurfaceAs500 ==
    ((IsPost(SetupPath) \/ IsPost(LoginPath)) /\ ~NoFailure)
        => /\ Answered
           /\ last.resp.status = 500
           /\ last.resp.message = None

(* C19 *)

\* The request matches an endpoint given as its methods and its pattern,
\* position by position; id stands for the position of the wildcard (0: none).
MatchesByPosition(methods, literals, id) ==
    /\ last.req.method \in methods
    /\ Len(last.req.path) = Len(literals)
    /\ \A i \in 1..Len(literals) : i = id \/ last.req.path[i] = literals[i]

C20_LoginOnlyReads ==
    IsPost(LoginPath)
        => /\ last.post = last.pre
           /\ last.pre = last.seen
           /\ store = last.pre
           /\ Cardinality({i \in 1..Len(last.ev) :
                              last.ev[i] \in {"db.read.ok", "db.read.err"}}) <= 1
           /\ ~HasEvent("db.create.ok") /\ ~HasEvent("db.create.err")

\* A login whose credentials match no stored user, answered 401, the two
\* stored users left as they were.
C20_Witness ==
    /\ IsPost(LoginPath) /\ CredentialsGiven /\ Matching = {}
    /\ last.resp.status = 401 /\ HasEvent("db.read.ok")
    /\ Len(last.pre) = 2 /\ store = last.pre

(* C21 *)

\* C21: a POST /setup that is not answered 201 leaves the store as it found
\* it, on every path of the handler: 410, 400, a failure of the store, and a
\* failure to issue or encode the session token after the create.
C21_SetupWithout201LeavesStore ==
    (IsPost(SetupPath) /\ last.resp.status # 201)
        => last.post = last.pre

(* C22 *)

\* C22: a response carries a session token only if it is a 201 of POST
\* /login or POST /setup, and every 201 carries one; the token of a login is
\* issued for the one stored user its credentials match; the token of a
\* setup is issued for the admin that same request has just appended to the
\* store; no other response (rejected, failed, or of a user-management
\* route) carries a token.
C22_TokenOnlyFor201AndItsUser ==
    /\ (last.resp.token # NoToken)
            <=> (last.resp.status = 201 /\ (IsPost(LoginPath) \/ IsPost(SetupPath)))
    /\ (last.resp.status = 201)
            => /\ last.resp.token.kind = "jwt"
               /\ last.resp.token.sig = Mac(last.resp.token.payload, Secret)
    /\ (IsPost(LoginPath) /\ last.resp.status = 201)
            => /\ Cardinality(Matching) = 1
               /\ \A i \in Matching :
                    /\ decode_claims(last.resp.token.payload).id = last.seen[i].id
                    /\ decode_claims(last.resp.token.payload).name = last.seen[i].name
    /\ (IsPost(SetupPath) /\ last.resp.status = 201)
            => /\ Len(last.post) = Len(last.pre) + 1
               /\ SubSeq(last.post, 1, Len(last.pre)) = last.pre
               /\ last.post[Len(last.post)].admin
               /\ last.post[Len(last.post)].name = last.req.body.username[1]
               /\ decode_claims(last.resp.token.payload).id = last.post[Len(last.post)].id
               /\ decode_claims(last.resp.token.payload).name
                    = last.post[Len(last.post)].name

\* A setup that lost the race to another one: its token names the admin it
\* appended itself, the second row, not the admin already there.
C22_Witness ==
    /\ IsPost(SetupPath) /\ last.resp.status = 201
    /\ Admins(last.pre) = {1} /\ Len(last.post) = 2
    /\ decode_claims(last.resp.token.payload).id = 2

(* C23 *)

\* C23: every request that enters create_user, get_user, get_all_users,
\* edit_user or delete_user, a valid session token of an admin with it or
\* not, is answered 404 with errno 404 and no token, and the handler neither
\* reads nor modifies the store.
C23_UserHandlersAre404Stubs ==
    (\E e \in UserManagementHandlers : HasEvent(e))
        => /\ Answered
           /\ last.resp.status = 404
           /\ last.resp.errno = 404
           /\ last.resp.token = NoToken
           /\ \A i \in 1..Len(last.ev) :
                last.ev[i] \notin {"db.read.ok", "db.read.err",
                                   "db.create.ok", "db.create.err"}
           /\ last.post = last.pre
           /\ store = last.pre

\* A GET /v1/users with the valid token of user 1, an admin of the store:
\* admitted as that user, and answered 404.
C23_Witness ==
    /\ last.req.method = "GET" /\ last.req.path = UsersPath
    /\ CarriesValidToken /\ last.ev[1] = "auth.admit"
    /\ last.who.id = 1 /\ Admins(store) = {1} /\ store[1].name = last.who.name
    /\ HasEvent("handler.get_all_users")
    /\ last.resp.status = 404 /\ last.resp.errno = 404

====
